---- MODULE Spec2Model ----
(***************************************************************************)
(* A model of the bodymovin frame renderer (src/src/lib.rs).               *)
(*                                                                         *)
(* Four specifications share one set of variables:                         *)
(*   Spec           get_all_frames: load, parse, parallel render, collect  *)
(*   SpecInterp     interpolate_f32 / interpolate_vec2 as pure functions   *)
(*   SpecTransform  parse_transform as a pure function                     *)
(*   SpecComposite  composite_layer on a small canvas                      *)
(*                                                                         *)
(* f32 values are modelled as exact extended rationals [n, d]: d > 0 is a  *)
(* finite value n/d in lowest terms, d = 0 is non-finite (n = 1: +inf,     *)
(* n = -1: -inf, n = 0: NaN).  Rounding to 24 bits is not modelled; the    *)
(* IEEE rules for division by zero, 0 * inf and NaN propagation are.       *)
(***************************************************************************)
EXTENDS Integers, Sequences, FiniteSets, TLC

VARIABLES pc, doc, assets, layers, dims, work, frames, inp, out

vars == <<pc, doc, assets, layers, dims, work, frames, inp, out>>

(***************************************************************************)
(* f32 arithmetic                                                          *)
(***************************************************************************)
IAbs(i) == IF i < 0 THEN -i ELSE i

RECURSIVE Gcd(_, _)
Gcd(a, b) == IF b = 0 THEN a ELSE Gcd(b, a % b)

\* n/d in lowest terms with a positive denominator (d # 0).
Q(n, d) ==
  LET s == IF d < 0 THEN -1 ELSE 1
      g == Gcd(IAbs(n), IAbs(d))
  IN  [n |-> (s * n) \div g, d |-> (s * d) \div g]

R(i) == [n |-> i, d |-> 1]

NaN == [n |-> 0, d |-> 0]
PosInf == [n |-> 1, d |-> 0]
NegInf == [n |-> -1, d |-> 0]

IsFinite(x) == x.d # 0
IsNaN(x) == x.d = 0 /\ x.n = 0
Sgn(x) == IF x.n > 0 THEN 1 ELSE IF x.n < 0 THEN -1 ELSE 0
Inf(s) == IF s > 0 THEN PosInf ELSE NegInf

fneg(x) == [n |-> -x.n, d |-> x.d]

fabs(x) == [n |-> IAbs(x.n), d |-> x.d]

fadd(x, y) ==
  IF IsNaN(x) \/ IsNaN(y) THEN NaN
  ELSE IF IsFinite(x) /\ IsFinite(y) THEN Q(x.n * y.d + y.n * x.d, x.d * y.d)
  ELSE IF IsFinite(x) THEN y
  ELSE IF IsFinite(y) THEN x
  ELSE IF x.n = y.n THEN x ELSE NaN

fsub(x, y) == fadd(x, fneg(y))

fmul(x, y) ==
  IF IsNaN(x) \/ IsNaN(y) THEN NaN
  ELSE IF IsFinite(x) /\ IsFinite(y) THEN Q(x.n * y.n, x.d * y.d)
  ELSE IF Sgn(x) = 0 \/ Sgn(y) = 0 THEN NaN
  ELSE Inf(Sgn(x) * Sgn(y))

\* x / y.  A zero divisor is +0.0 wherever the program divides (a difference
\* of two equal finite values), so x / 0 has the sign of x.
fdiv(x, y) ==
  IF IsNaN(x) \/ IsNaN(y) THEN NaN
  ELSE IF IsFinite(y) /\ y.n # 0
    THEN IF IsFinite(x) THEN Q(x.n * y.d, x.d * y.n) ELSE Inf(Sgn(x) * Sgn(y))
  ELSE IF IsFinite(y)
    THEN IF Sgn(x) = 0 THEN NaN ELSE Inf(Sgn(x))
  ELSE IF IsFinite(x) THEN R(0) ELSE NaN

flt(x, y) ==
  /\ ~IsNaN(x)
  /\ ~IsNaN(y)
  /\ IF IsFinite(x) /\ IsFinite(y) THEN x.n * y.d < y.n * x.d
     ELSE IF IsFinite(x) THEN y.n > 0
     ELSE IF IsFinite(y) THEN x.n < 0
     ELSE x.n < y.n

fle(x, y) == ~IsNaN(x) /\ ~IsNaN(y) /\ ~flt(y, x)

\* f32::clamp: a NaN stays a NaN.
fclamp(x, lo, hi) == IF flt(x, lo) THEN lo ELSE IF flt(hi, x) THEN hi ELSE x

\* Truncation toward zero of a finite value.
Trunc(x) == IF x.n >= 0 THEN x.n \div x.d ELSE -((-x.n) \div x.d)

(***************************************************************************)
(* serde_json::Value.  Indexing a missing key, an index out of range or a  *)
(* value of the wrong kind yields Null; as_f64 / as_i64 / as_str yield     *)
(* None on anything but a number / a string.  JSON numbers are integers.   *)
(***************************************************************************)
Null == [ty |-> "null"]
Num(i) == [ty |-> "num", v |-> i]
Str(s) == [ty |-> "str", v |-> s]
Arr(a) == [ty |-> "arr", v |-> a]
Obj(o) == [ty |-> "obj", v |-> o]

is_array(v) == v.ty = "arr"
is_object(v) == v.ty = "obj"
is_number(v) == v.ty = "num"
is_str(v) == v.ty = "str"

\* v[i] for a 0-based index i
Idx(v, i) == IF is_array(v) /\ i < Len(v.v) THEN v.v[i + 1] ELSE Null

\* v["k"]
Key(v, k) == IF is_object(v) /\ k \in DOMAIN v.v THEN v.v[k] ELSE Null

\* v.get("k").is_some()
Has(v, k) == is_object(v) /\ k \in DOMAIN v.v

\* v.as_f64().unwrap_or(d) as f32
as_f64_or(v, d) == IF is_number(v) THEN R(v.v) ELSE d

\* v.as_i64().unwrap_or(d)
as_i64_or(v, d) == IF is_number(v) THEN v.v ELSE d

(***************************************************************************)
(* Keyframe interpolation                                                  *)
(***************************************************************************)
Vec2(x, y) == [x |-> x, y |-> y]

parse_vec2(v) ==
  IF is_array(v) THEN Vec2(as_f64_or(Idx(v, 0), R(0)), as_f64_or(Idx(v, 1), R(0)))
  ELSE IF is_object(v) THEN Vec2(as_f64_or(Key(v, "x"), R(0)), as_f64_or(Key(v, "y"), R(0)))
  ELSE Vec2(R(0), R(0))

\* &keyframes_array[0] on an empty array: index out of bounds, the thread panics.
IndexPanics(keyframes) == is_array(keyframes) /\ Len(keyframes.v) = 0

\* The scan loop of both interpolators over arr[i..]: the last keyframe with
\* t <= frame becomes prev, the first one with t > frame becomes next and ends
\* the loop; both start as arr[1].
RECURSIVE ScanKeyframes(_, _, _, _, _)
ScanKeyframes(arr, i, frame, prev, next) ==
  IF i > Len(arr) THEN [prev |-> prev, next |-> next]
  ELSE IF fle(as_f64_or(Key(arr[i], "t"), R(0)), frame)
    THEN ScanKeyframes(arr, i + 1, frame, arr[i], next)
    ELSE [prev |-> prev, next |-> arr[i]]

Progress(sel, frame) ==
  LET start_time == as_f64_or(Key(sel.prev, "t"), R(0))
      end_time == as_f64_or(Key(sel.next, "t"), R(0))
  IN  fdiv(fsub(frame, start_time), fsub(end_time, start_time))

Lerp(start_value, end_value, progress) ==
  fadd(start_value, fmul(fsub(end_value, start_value), progress))

\* Defined for ~IndexPanics(keyframes).
interpolate_f32(keyframes, frame) ==
  IF is_array(keyframes)
    THEN LET sel == ScanKeyframes(keyframes.v, 1, frame, keyframes.v[1], keyframes.v[1])
             start_value == as_f64_or(Idx(Key(sel.prev, "s"), 0), R(0))
             end_value == as_f64_or(Idx(Key(sel.next, "e"), 0), R(0))
         IN  Lerp(start_value, end_value, Progress(sel, frame))
    ELSE as_f64_or(keyframes, R(0))

\* Defined for ~IndexPanics(keyframes).
interpolate_vec2(keyframes, frame) ==
  IF is_array(keyframes)
    THEN LET sel == ScanKeyframes(keyframes.v, 1, frame, keyframes.v[1], keyframes.v[1])
             progress == Progress(sel, frame)
             start_value == parse_vec2(Key(sel.prev, "s"))
             end_value == parse_vec2(Key(sel.next, "e"))
         IN  Vec2(Lerp(start_value.x, end_value.x, progress),
                  Lerp(start_value.y, end_value.y, progress))
    ELSE parse_vec2(keyframes)

(***************************************************************************)
(* Inputs of the interpolators                                             *)
(***************************************************************************)
MaxKeys == 2
MaxTime == 4

KeyTimes == {1, MaxTime - 1, MaxTime}
KeyValues == {Arr(<<Num(10), Num(40)>>), Arr(<<Num(20), Num(60)>>)}

\* A keyframe object: "t" a number or a malformed string, "s" and "e" present
\* or absent.
KeyframeObjs ==
  LET ts == {Num(t) : t \in KeyTimes}
  IN  {Obj([t |-> t, s |-> s, e |-> e]) : t \in ts, s \in KeyValues, e \in KeyValues}
      \cup {Obj([t |-> t, s |-> s]) : t \in ts, s \in KeyValues}
      \cup {Obj([t |-> t, e |-> e]) : t \in ts, e \in KeyValues}
      \cup {Obj([t |-> t]) : t \in ts}
      \cup {Obj([t |-> Str("x"), s |-> s, e |-> s]) : s \in KeyValues}

SeqsUpTo(S, n) == UNION {[1..k -> S] : k \in 0..n}

Tracks == {Arr(a) : a \in SeqsUpTo(KeyframeObjs, MaxKeys)} \cup {Num(7), Null}

\* Frames at which the interpolators are evaluated: 0, 1/2, 1, ... MaxTime + 1
FrameArgs == {Q(k, 2) : k \in 0..(2 * (MaxTime + 1))}

NoOut == [fn |-> "none"]

IdleInit ==
  /\ doc = Null
  /\ assets = <<>>
  /\ layers = <<>>
  /\ dims = <<>>
  /\ work = <<>>
  /\ frames = <<>>

InterpInit ==
  /\ IdleInit
  /\ pc = "interp"
  /\ inp \in [keyframes : Tracks, frame : FrameArgs]
  /\ out = NoOut

CallInterpolateF32 ==
  /\ pc = "interp"
  /\ pc' = "interp_done"
  /\ out' = IF IndexPanics(inp.keyframes)
              THEN [fn |-> "f32", panic |-> TRUE]
              ELSE [fn |-> "f32", panic |-> FALSE,
                    v |-> interpolate_f32(inp.keyframes, inp.frame)]
  /\ UNCHANGED <<doc, assets, layers, dims, work, frames, inp>>

CallInterpolateVec2 ==
  /\ pc = "interp"
  /\ pc' = "interp_done"
  /\ out' = IF IndexPanics(inp.keyframes)
              THEN [fn |-> "vec2", panic |-> TRUE]
              ELSE [fn |-> "vec2", panic |-> FALSE,
                    v |-> interpolate_vec2(inp.keyframes, inp.frame)]
  /\ UNCHANGED <<doc, assets, layers, dims, work, frames, inp>>

InterpNext == CallInterpolateF32 \/ CallInterpolateVec2

SpecInterp == InterpInit /\ [][InterpNext]_vars

(***************************************************************************)
(* Claims about the interpolators (checked under SpecInterp)               *)
(***************************************************************************)
KeyTime(kf) == as_f64_or(Key(kf, "t"), R(0))

\* A keyframe with a numeric time and a start value: its value is "s".
WellFormedKey(kf) == is_number(Key(kf, "t")) /\ is_array(Key(kf, "s"))

\* A non-empty keyframe list in non-decreasing time order.
SortedTrack(k) ==
  /\ is_array(k)
  /\ Len(k.v) >= 1
  /\ \A i \in 1..Len(k.v) : WellFormedKey(k.v[i])
  /\ \A i \in 1..(Len(k.v) - 1) : fle(KeyTime(k.v[i]), KeyTime(k.v[i + 1]))

\* The value of a keyframe as the called interpolator reads it.
KeyValueAs(fn, kf) ==
  IF fn = "f32" THEN as_f64_or(Idx(Key(kf, "s"), 0), R(0)) ELSE parse_vec2(Key(kf, "s"))

FiniteOut(fn, v) == IF fn = "f32" THEN IsFinite(v) ELSE IsFinite(v.x) /\ IsFinite(v.y)

\* C3: on a non-empty keyframe list in non-decreasing time order, both
\* interpolators return the first keyframe's value at a frame before the first
\* keyframe's time and the last keyframe's value at a frame at or after the
\* last keyframe's time, and the result is never non-finite (no division by
\* zero, no extrapolation).
C3_BoundaryClamp ==
  (pc = "interp_done" /\ SortedTrack(inp.keyframes)) =>
    LET k == inp.keyframes.v
        first == k[1]
        last == k[Len(k)]
    IN  /\ ~out.panic
        /\ FiniteOut(out.fn, out.v)
        /\ flt(inp.frame, KeyTime(first)) => out.v = KeyValueAs(out.fn, first)
        /\ fle(KeyTime(last), inp.frame) => out.v = KeyValueAs(out.fn, last)

\* C4: a scalar track of exactly two keyframes (t0,v0),(t1,v1) with t0 < t1,
\* written as the format writes it (the first keyframe's end value is v1),
\* interpolates to v0 at t0, to v1 at t1 and to (v0+v1)/2 at (t0+t1)/2.
C4_TwoKeyframes ==
  (/\ pc = "interp_done"
   /\ out.fn = "f32"
   /\ SortedTrack(inp.keyframes)
   /\ Len(inp.keyframes.v) = 2
   /\ flt(KeyTime(inp.keyframes.v[1]), KeyTime(inp.keyframes.v[2]))
   /\ Key(inp.keyframes.v[1], "e") = Key(inp.keyframes.v[2], "s")) =>
    LET k0 == inp.keyframes.v[1]
        k1 == inp.keyframes.v[2]
        v0 == KeyValueAs("f32", k0)
        v1 == KeyValueAs("f32", k1)
        mid == fdiv(fadd(KeyTime(k0), KeyTime(k1)), R(2))
    IN  /\ inp.frame = KeyTime(k0) => out.v = v0
        /\ inp.frame = KeyTime(k1) => out.v = v1
        /\ inp.frame = mid => out.v = fdiv(fadd(v0, v1), R(2))

(***************************************************************************)
(* Transform resolution                                                    *)
(***************************************************************************)
\* prop["a"].as_i64().unwrap_or(0) == 1
Animated(prop) == as_i64_or(Key(prop, "a"), 0) = 1

\* An interpolator is reached with an empty keyframe array: the five
\* properties are resolved in turn, any of them may hit the panic.
parse_transform_panics(transform_data) ==
  \E key \in {"p", "s", "a", "r", "o"} :
    /\ Has(transform_data, key)
    /\ Animated(Key(transform_data, key))
    /\ IndexPanics(Key(Key(transform_data, key), "k"))

\* Defined for ~parse_transform_panics(transform_data).
parse_transform(transform_data, frame) ==
  LET p == Key(transform_data, "p")
      s == Key(transform_data, "s")
      a == Key(transform_data, "a")
      r == Key(transform_data, "r")
      o == Key(transform_data, "o")
      position ==
        IF Has(transform_data, "p")
          THEN IF Animated(p) THEN interpolate_vec2(Key(p, "k"), frame)
               ELSE parse_vec2(Key(p, "k"))
          ELSE Vec2(R(0), R(0))
      scale_vec == IF Animated(s) THEN interpolate_vec2(Key(s, "k"), frame)
                   ELSE parse_vec2(Key(s, "k"))
      scale ==
        IF Has(transform_data, "s")
          THEN Vec2(fdiv(scale_vec.x, R(100)), fdiv(scale_vec.y, R(100)))
          ELSE Vec2(R(1), R(1))
      anchor_point ==
        IF Has(transform_data, "a")
          THEN IF Animated(a) THEN interpolate_vec2(Key(a, "k"), frame)
               ELSE parse_vec2(Key(a, "k"))
          ELSE Vec2(R(0), R(0))
      rotation ==
        IF Has(transform_data, "r")
          THEN IF Animated(r) THEN interpolate_f32(Key(r, "k"), frame)
               ELSE as_f64_or(Key(r, "k"), R(0))
          ELSE R(0)
      opacity ==
        IF Has(transform_data, "o")
          THEN IF Animated(o)
                 THEN fclamp(fdiv(interpolate_f32(Key(o, "k"), frame), R(100)), R(0), R(1))
                 ELSE fclamp(fdiv(as_f64_or(Key(o, "k"), R(100)), R(100)), R(0), R(1))
          ELSE R(1)
  IN  [position |-> position, anchor_point |-> anchor_point, scale |-> scale,
       rotation |-> rotation, opacity |-> opacity]

(***************************************************************************)
(* Inputs of parse_transform                                               *)
(***************************************************************************)
Absent == [ty |-> "absent"]

\* The object holding the fields of rec that are not Absent.
MkObj(rec) == Obj([k \in {j \in DOMAIN rec : rec[j] # Absent} |-> rec[k]])

Kf(t, s, e) == Obj([t |-> Num(t), s |-> Arr(<<Num(s), Num(s)>>), e |-> Arr(<<Num(e), Num(e)>>)])

\* The last keyframe of a track as the exporter writes it: a time only.
KfEnd(t) == Obj([t |-> Num(t)])

AnimatedProps ==
  { Obj([a |-> Num(1), k |-> Arr(<<>>)]),
    Obj([a |-> Num(1), k |-> Arr(<<Kf(1, 100, 100)>>)]),
    Obj([a |-> Num(1), k |-> Arr(<<Kf(1, 100, 0), KfEnd(3)>>)]) }

Vec2Props ==
  { Absent,
    Obj([a |-> Num(0), k |-> Arr(<<Num(50), Num(200)>>)]),
    Obj([a |-> Num(0), k |-> Arr(<<Str("x"), Num(100)>>)]),
    Obj([k |-> Obj([x |-> Num(100), y |-> Num(100)])]),
    Obj([a |-> Num(0)]) } \cup AnimatedProps

ScalarProps ==
  { Absent,
    Obj([a |-> Num(0), k |-> Num(50)]),
    Obj([a |-> Num(0), k |-> Num(250)]),
    Obj([a |-> Num(0), k |-> Num(-20)]),
    Obj([a |-> Num(0), k |-> Str("x")]) } \cup AnimatedProps

TransformGroups ==
  {Null} \cup
  { MkObj([p |-> p, a |-> a, s |-> s, r |-> r, o |-> o]) :
      p \in Vec2Props, a \in {Absent, Obj([a |-> Num(0), k |-> Arr(<<Num(1), Num(0)>>)])},
      s \in Vec2Props, r \in ScalarProps, o \in ScalarProps }

MaxFrame == 3

TransformInit ==
  /\ IdleInit
  /\ pc = "transform"
  /\ inp \in [transform_data : TransformGroups, frame : 0..MaxFrame]
  /\ out = NoOut

CallParseTransform ==
  /\ pc = "transform"
  /\ pc' = "transform_done"
  /\ out' = IF parse_transform_panics(inp.transform_data)
              THEN [fn |-> "parse_transform", panic |-> TRUE]
              ELSE [fn |-> "parse_transform", panic |-> FALSE,
                    v |-> parse_transform(inp.transform_data, R(inp.frame))]
  /\ UNCHANGED <<doc, assets, layers, dims, work, frames, inp>>

TransformNext == CallParseTransform

SpecTransform == TransformInit /\ [][TransformNext]_vars

(***************************************************************************)
(* Claims about parse_transform (checked under SpecTransform)              *)
(***************************************************************************)
\* C5: whatever the opacity property holds (absent, static or animated, any
\* keyframe times and values) and whatever the frame, the opacity of the
\* resolved transform lies in [0,1].
C5_OpacityInUnitInterval ==
  (pc = "transform_done" /\ ~out.panic) =>
    fle(R(0), out.v.opacity) /\ fle(out.v.opacity, R(1))

\* A static property whose component (index i of an array, field f of an
\* object) is missing or is no number, or a property that is absent.
NoNumber(transform_data, key, i, f) ==
  \/ ~Has(transform_data, key)
  \/ /\ ~Animated(Key(transform_data, key))
     /\ ~is_number(Idx(Key(Key(transform_data, key), "k"), i))
     /\ ~is_number(Key(Key(Key(transform_data, key), "k"), f))

NoScalar(transform_data, key) ==
  \/ ~Has(transform_data, key)
  \/ /\ ~Animated(Key(transform_data, key))
     /\ ~is_number(Key(Key(transform_data, key), "k"))

\* C9: parse_transform succeeds on every transform group and frame, and a
\* missing or malformed numeric field resolves to 0 for position, anchor and
\* rotation and to 1 for scale and opacity.
C9_TotalNeutralDefaults ==
  pc = "transform_done" =>
    LET td == inp.transform_data
    IN  /\ ~out.panic
        /\ NoNumber(td, "p", 0, "x") => out.v.position.x = R(0)
        /\ NoNumber(td, "p", 1, "y") => out.v.position.y = R(0)
        /\ NoNumber(td, "a", 0, "x") => out.v.anchor_point.x = R(0)
        /\ NoNumber(td, "a", 1, "y") => out.v.anchor_point.y = R(0)
        /\ NoNumber(td, "s", 0, "x") => out.v.scale.x = R(1)
        /\ NoNumber(td, "s", 1, "y") => out.v.scale.y = R(1)
        /\ NoScalar(td, "r") => out.v.rotation = R(0)
        /\ NoScalar(td, "o") => out.v.opacity = R(1)

(***************************************************************************)
(* Layer compositing.  A canvas is [w, h, px] with px[<<x, y>>] a pixel    *)
(* [c, a]: c names the colour (0: none, else the image that painted it),   *)
(* a is the alpha channel 0..255.  A layer image is [w, h, c]: w x h       *)
(* pixels of colour c, all opaque; resampling such an image gives an image *)
(* of the same colour.  The rotation branch (rotation # 0) is not          *)
(* modelled: every transform composited in this model has rotation 0.      *)
(***************************************************************************)
\* Stand-in for the saturated result of a float-to-integer cast (the real
\* limit does not fit the checker's integers): farther than any canvas or
\* image of the model reaches.
Far == 1000

\* x as i64
AsI64(x) ==
  IF IsNaN(x) THEN 0
  ELSE IF ~IsFinite(x) THEN Sgn(x) * Far
  ELSE IF Trunc(x) > Far THEN Far
  ELSE IF Trunc(x) < -Far THEN -Far
  ELSE Trunc(x)

\* x as u32
AsU32(x) == IF AsI64(x) < 0 THEN 0 ELSE AsI64(x)

\* x.round() of a finite x >= 0
Round(x) == (2 * x.n + x.d) \div (2 * x.d)

IMax(a, b) == IF a >= b THEN a ELSE b

Pixels(w, h) == (0..(w - 1)) \X (0..(h - 1))

\* ImageBuffer::new(width, height): every channel 0
NewImage(w, h) == [w |-> w, h |-> h, px |-> [q \in Pixels(w, h) |-> [c |-> 0, a |-> 0]]]

\* Mutant: each component is floored at 1 on its own.
GuardedScale_PerAxis(scale) ==
  Vec2(IF flt(fabs(scale.x), R(1)) THEN R(1) ELSE scale.x,
       IF flt(fabs(scale.y), R(1)) THEN R(1) ELSE scale.y)

\* The scale guard: a scale.x of magnitude below 1 resets both components.
GuardedScale(scale) == IF flt(fabs(scale.x), R(1)) THEN Vec2(R(1), R(1)) ELSE scale

\* scaled_width, scaled_height: the bounds handed to resize
ScaledSize(layer_image, transform) ==
  LET scale == GuardedScale(transform.scale)
  IN  [w |-> AsU32(fmul(R(layer_image.w), fabs(scale.x))),
       h |-> AsU32(fmul(R(layer_image.h), fabs(scale.y)))]

\* DynamicImage::resize keeps the aspect ratio: the largest size that fits
\* the bounds, at least 1 x 1.
Resized(layer_image, bounds) ==
  LET wratio == Q(bounds.w, layer_image.w)
      hratio == Q(bounds.h, layer_image.h)
      ratio == IF flt(hratio, wratio) THEN hratio ELSE wratio
  IN  [w |-> IMax(Round(fmul(R(layer_image.w), ratio)), 1),
       h |-> IMax(Round(fmul(R(layer_image.h), ratio)), 1),
       c |-> layer_image.c]

\* imageops::overlay of an opaque image at (x, y), clipped to the canvas
Overlay(base_image, top, x, y) ==
  [base_image EXCEPT !.px =
     [q \in Pixels(base_image.w, base_image.h) |->
        IF /\ x <= q[1] /\ q[1] < x + top.w
           /\ y <= q[2] /\ q[2] < y + top.h
          THEN [c |-> top.c, a |-> 255]
          ELSE base_image.px[q]]]

\* The alpha of every pixel of the canvas times opacity, truncated to u8
ScaleAlpha(base_image, opacity) ==
  [base_image EXCEPT !.px =
     [q \in Pixels(base_image.w, base_image.h) |->
        [base_image.px[q] EXCEPT !.a = AsU32(fmul(R(base_image.px[q].a), opacity))]]]

\* Mutant: the opacity reaches only the pixels the layer was overlaid on.
composite_layer_LayerOpacity(base_image, layer_image, transform) ==
  LET top == Resized(layer_image, ScaledSize(layer_image, transform))
      x == AsI64(fsub(transform.position.x, transform.anchor_point.x))
      y == AsI64(fsub(transform.position.y, transform.anchor_point.y))
      alpha == IF flt(transform.opacity, R(1))
                 THEN AsU32(fmul(R(255), transform.opacity)) ELSE 255
  IN  [base_image EXCEPT !.px =
         [q \in Pixels(base_image.w, base_image.h) |->
            IF /\ x <= q[1] /\ q[1] < x + top.w
               /\ y <= q[2] /\ q[2] < y + top.h
              THEN [c |-> top.c, a |-> alpha]
              ELSE base_image.px[q]]]

composite_layer(base_image, layer_image, transform) ==
  LET resized_image == Resized(layer_image, ScaledSize(layer_image, transform))
      x == fsub(transform.position.x, transform.anchor_point.x)
      y == fsub(transform.position.y, transform.anchor_point.y)
      overlaid == Overlay(base_image, resized_image, AsI64(x), AsI64(y))
  IN  IF flt(transform.opacity, R(1)) THEN ScaleAlpha(overlaid, transform.opacity)
      ELSE overlaid

(***************************************************************************)
(* Inputs of composite_layer                                               *)
(***************************************************************************)
CanvasW == 4
CanvasH == 2

Identity ==
  [position |-> Vec2(R(0), R(0)), anchor_point |-> Vec2(R(0), R(0)),
   scale |-> Vec2(R(1), R(1)), rotation |-> R(0), opacity |-> R(1)]

LayerImages == {[w |-> 2, h |-> 2, c |-> 1], [w |-> 4, h |-> 2, c |-> 2]}

\* A fresh canvas, and canvases an earlier layer has painted.
BaseImages ==
  { NewImage(CanvasW, CanvasH),
    composite_layer(NewImage(CanvasW, CanvasH), [w |-> 1, h |-> 2, c |-> 3],
                    [Identity EXCEPT !.position = Vec2(R(CanvasW - 1), R(0))]),
    composite_layer(NewImage(CanvasW, CanvasH), [w |-> 4, h |-> 1, c |-> 3], Identity) }

Scales ==
  { Vec2(R(1), R(1)), Vec2(Q(1, 2), Q(1, 2)), Vec2(R(2), R(2)), Vec2(Q(1, 2), R(2)),
    Vec2(R(2), Q(1, 2)), Vec2(Q(-1, 2), Q(-1, 2)), Vec2(R(-1), R(1)), Vec2(R(0), R(0)) }

ResolvedTransforms ==
  [position : {Vec2(R(0), R(0)), Vec2(R(1), R(1)), Vec2(R(-1), R(0)), Vec2(PosInf, NaN)},
   anchor_point : {Vec2(R(0), R(0)), Vec2(R(1), R(0))},
   scale : Scales,
   rotation : {R(0)},
   opacity : {R(1), Q(1, 2), R(0), NaN}]

CompositeInit ==
  /\ IdleInit
  /\ pc = "composite"
  /\ inp \in [base_image : BaseImages, layer_image : LayerImages,
              transform : ResolvedTransforms]
  /\ out = NoOut

CallCompositeLayer ==
  /\ pc = "composite"
  /\ pc' = "composite_done"
  /\ out' = [fn |-> "composite_layer",
             scaled |-> ScaledSize(inp.layer_image, inp.transform),
             image |-> composite_layer(inp.base_image, inp.layer_image, inp.transform)]
  /\ UNCHANGED <<doc, assets, layers, dims, work, frames, inp>>

CompositeNext == CallCompositeLayer

SpecComposite == CompositeInit /\ [][CompositeNext]_vars

(***************************************************************************)
(* Claims about composite_layer (checked under SpecComposite)              *)
(***************************************************************************)
\* C10: the layer image is resampled to (source_width * |scale.x|,
\* source_height * |scale.y|) for every resolved scale, magnitudes below 1
\* included: the scale is not floored at 1.  (Stated where both products are
\* whole numbers, so that rounding plays no part.)
C10_ScaleHonoured ==
  pc = "composite_done" =>
    LET tw == fmul(R(inp.layer_image.w), fabs(inp.transform.scale.x))
        th == fmul(R(inp.layer_image.h), fabs(inp.transform.scale.y))
    IN  (tw.d = 1 /\ th.d = 1) => out.scaled = [w |-> tw.n, h |-> th.n]

\* The pixels of the canvas the call overlays the layer image on.
OverlaidPixels ==
  LET t == inp.transform
      top == Resized(inp.layer_image, out.scaled)
      x == AsI64(fsub(t.position.x, t.anchor_point.x))
      y == AsI64(fsub(t.position.y, t.anchor_point.y))
  IN  {q \in Pixels(inp.base_image.w, inp.base_image.h) :
         x <= q[1] /\ q[1] < x + top.w /\ y <= q[2] /\ q[2] < y + top.h}

\* The alpha of pixel q once the layer image is overlaid, before any opacity.
AlphaOverlaid(q) == IF q \in OverlaidPixels THEN 255 ELSE inp.base_image.px[q].a

\* C11: compositing a layer of opacity below 1 multiplies (truncating to a
\* byte) the alpha of every pixel of the canvas by that opacity after the
\* overlay, the pixels earlier layers painted and the pixels outside the
\* layer's footprint included, and leaves the colours as the overlay left
\* them; with opacity 1 no pixel outside the footprint changes.
C11_OpacityScalesWholeCanvas ==
  pc = "composite_done" =>
    \A q \in Pixels(inp.base_image.w, inp.base_image.h) :
      /\ flt(inp.transform.opacity, R(1)) =>
           /\ out.image.px[q].a = Trunc(fmul(R(AlphaOverlaid(q)), inp.transform.opacity))
           /\ out.image.px[q].c =
                IF q \in OverlaidPixels THEN inp.layer_image.c ELSE inp.base_image.px[q].c
      /\ (inp.transform.opacity = R(1) /\ q \notin OverlaidPixels) =>
           out.image.px[q] = inp.base_image.px[q]

\* A pixel an earlier layer painted, outside the footprint of a layer of
\* opacity 1/2, is dimmed and keeps its colour.
C11_Witness ==
  /\ pc = "composite_done"
  /\ inp.transform.opacity = Q(1, 2)
  /\ \E q \in Pixels(inp.base_image.w, inp.base_image.h) :
       /\ q \notin OverlaidPixels
       /\ inp.base_image.px[q].a = 255
       /\ out.image.px[q].a = 127
       /\ out.image.px[q].c = inp.base_image.px[q].c
  /\ OverlaidPixels # {}

\* C12: the scale guard looks at scale.x alone.  With |scale.x| < 1 both
\* components become 1 (the image keeps its size) whatever scale.y is; with
\* |scale.x| >= 1 scale.y is used as resolved, also when |scale.y| < 1.
C12_GuardOnXOnly ==
  pc = "composite_done" =>
    LET sx == fabs(inp.transform.scale.x)
        sy == fabs(inp.transform.scale.y)
    IN  /\ flt(sx, R(1)) => out.scaled = [w |-> inp.layer_image.w, h |-> inp.layer_image.h]
        /\ fle(R(1), sx) =>
             out.scaled = [w |-> Trunc(fmul(R(inp.layer_image.w), sx)),
                           h |-> Trunc(fmul(R(inp.layer_image.h), sy))]

\* A scale.y above 1 is dropped because |scale.x| < 1.
C12_Witness ==
  /\ pc = "composite_done"
  /\ flt(fabs(inp.transform.scale.x), R(1))
  /\ flt(R(1), fabs(inp.transform.scale.y))
  /\ out.scaled = [w |-> inp.layer_image.w, h |-> inp.layer_image.h]

(***************************************************************************)
(* get_all_frames: the document file, the asset files, and the pipeline    *)
(***************************************************************************)
\* The image files of the assets directory that open and decode; image::open
\* fails on every other path.
Files ==
  [p \in {"a.png", "b.png"} |->
     IF p = "a.png" THEN [w |-> 2, h |-> 2, c |-> 1] ELSE [w |-> CanvasW, h |-> 1, c |-> 2]]

Err(msg) == [ok |-> FALSE, err |-> msg]

\* File::open + serde_json::from_reader
load_bodymovin_json(file) ==
  IF file.readable THEN [ok |-> TRUE, v |-> file.json] ELSE Err("IO error")

\* The loop of load_assets from entry i on: the first entry without a string
\* id, without a string path or with a file that does not decode ends it with
\* an error.
RECURSIVE LoadAssetsFrom(_, _, _)
LoadAssetsFrom(arr, i, acc) ==
  IF i > Len(arr) THEN [ok |-> TRUE, v |-> acc]
  ELSE LET id == Key(arr[i], "id")
           path == Key(arr[i], "p")
       IN  IF ~is_str(id) THEN Err("Missing asset id")
           ELSE IF ~is_str(path) THEN Err("Missing asset path")
           ELSE IF path.v \notin DOMAIN Files THEN Err("Image error")
           ELSE LoadAssetsFrom(arr, i + 1,
                  [k \in DOMAIN acc \cup {id.v} |->
                     IF k = id.v THEN Files[path.v] ELSE acc[k]])

\* Mutant: an entry that cannot be loaded is passed over instead of ending
\* the load with its error.
RECURSIVE LoadAssetsSkipping(_, _, _)
LoadAssetsSkipping(arr, i, acc) ==
  IF i > Len(arr) THEN [ok |-> TRUE, v |-> acc]
  ELSE LET id == Key(arr[i], "id")
           path == Key(arr[i], "p")
       IN  IF ~is_str(id) \/ ~is_str(path) \/ path.v \notin DOMAIN Files
             THEN LoadAssetsSkipping(arr, i + 1, acc)
             ELSE LoadAssetsSkipping(arr, i + 1,
                    [k \in DOMAIN acc \cup {id.v} |->
                       IF k = id.v THEN Files[path.v] ELSE acc[k]])

load_assets_SkipBad(animation_data) ==
  IF is_array(Key(animation_data, "assets"))
    THEN LoadAssetsSkipping(Key(animation_data, "assets").v, 1, <<>>)
    ELSE [ok |-> TRUE, v |-> <<>>]

load_assets(animation_data) ==
  IF is_array(Key(animation_data, "assets"))
    THEN LoadAssetsFrom(Key(animation_data, "assets").v, 1, <<>>)
    ELSE [ok |-> TRUE, v |-> <<>>]

\* One Layer of parse_layers; asset_id is the refId string, or Null for None.
ParseLayer(layer) ==
  [start_frame |-> as_f64_or(Key(layer, "ip"), R(0)),
   end_frame |-> as_f64_or(Key(layer, "op"), R(0)),
   transform |-> Key(layer, "ks"),
   asset_id |-> IF is_str(Key(layer, "refId")) THEN Key(layer, "refId") ELSE Null]

parse_layers(animation_data) ==
  IF is_array(Key(animation_data, "layers"))
    THEN [ok |-> TRUE,
          v |-> [i \in 1..Len(Key(animation_data, "layers").v) |->
                   ParseLayer(Key(animation_data, "layers").v[i])]]
    ELSE Err("No layers found")

DefaultWidth == 540
DefaultHeight == 800

\* v.as_u64().unwrap_or(d)
as_u64_or(v, d) == IF is_number(v) /\ v.v >= 0 THEN v.v ELSE d

\* width, height, total_frames
Dimensions(animation_data) ==
  [width |-> as_u64_or(Key(animation_data, "w"), DefaultWidth),
   height |-> as_u64_or(Key(animation_data, "h"), DefaultHeight),
   total_frames |-> AsU32(as_f64_or(Key(animation_data, "op"), R(0)))]

\* Mutant: the range takes its upper bound in, (0..=total_frames).
FrameRange_Inclusive(total_frames) == 0..total_frames

\* (0..total_frames)
FrameRange(total_frames) == 0..(total_frames - 1)

\* Mutant: the loop runs in storage order, layers.iter().
LayerOrder_Forward(n) == [i \in 1..n |-> i]

\* layers.iter().rev(): the layer visited at each step of the loop
LayerOrder(n) == [i \in 1..n |-> n + 1 - i]

\* Mutant: the end frame is exclusive, frame_number as f32 < layer.end_frame.
LayerActive_ExclusiveEnd(layer, frame_number) ==
  fle(layer.start_frame, R(frame_number)) /\ flt(R(frame_number), layer.end_frame)

\* frame_number as f32 >= layer.start_frame && frame_number as f32 <= layer.end_frame
LayerActive(layer, frame_number) ==
  fle(layer.start_frame, R(frame_number)) /\ fle(R(frame_number), layer.end_frame)

\* The asset of a layer is named and is in the store.
AssetResolves(layer, store) == is_str(layer.asset_id) /\ layer.asset_id.v \in DOMAIN store

\* Mutant: frames are pushed as their workers complete.
Collected_CompletionOrder(sofar, frame_number, image) ==
  Append(sofar, [frame |-> frame_number, image |-> image])

\* collect(): the frame of index frame_number takes its place by index among
\* those collected so far, whenever its worker completes.
Collected(sofar, frame_number, image) ==
  LET before == SelectSeq(sofar, LAMBDA e : e.frame < frame_number)
      after == SelectSeq(sofar, LAMBDA e : e.frame > frame_number)
  IN  before \o <<[frame |-> frame_number, image |-> image]>> \o after

(***************************************************************************)
(* Documents                                                               *)
(***************************************************************************)
MaxOp == 2
MaxLayers == 2

StaticVec(x, y) == Obj([a |-> Num(0), k |-> Arr(<<Num(x), Num(y)>>)])

LayerObj(ip, op, refId, ks) == MkObj([ip |-> Num(ip), op |-> Num(op), refId |-> refId, ks |-> ks])

LayerObjs ==
  { LayerObj(0, MaxOp, Str("a"), Absent),
    LayerObj(0, MaxOp, Str("b"), Absent),
    LayerObj(1, 1, Str("a"), Obj([p |-> StaticVec(1, 0), s |-> StaticVec(50, 50)])),
    LayerObj(0, 0, Str("b"), Obj([o |-> Obj([a |-> Num(0), k |-> Num(50)])])),
    LayerObj(0, MaxOp, Absent, Absent),
    LayerObj(0, MaxOp, Str("zz"), Absent),
    LayerObj(1, MaxOp, Str("a"), Obj([p |-> Obj([a |-> Num(1), k |-> Arr(<<>>)])])) }

AssetObj(id, path) == MkObj([id |-> id, p |-> path])

AssetLists ==
  { Absent,
    Arr(<<AssetObj(Str("a"), Str("a.png")), AssetObj(Str("b"), Str("b.png"))>>),
    Arr(<<AssetObj(Str("a"), Str("a.png")), AssetObj(Absent, Str("b.png"))>>),
    Arr(<<AssetObj(Str("a"), Str("a.png")), AssetObj(Str("b"), Absent)>>),
    Arr(<<AssetObj(Str("a"), Str("a.png")), AssetObj(Str("b"), Str("bad.png"))>>) }

Documents ==
  { MkObj([w |-> Num(CanvasW), h |-> Num(CanvasH), op |-> op, assets |-> a, layers |-> l]) :
      op \in {Absent, Str("x"), Num(-1)} \cup {Num(n) : n \in 0..MaxOp},
      a \in AssetLists,
      l \in {Absent} \cup {Arr(ls) : ls \in SeqsUpTo(LayerObjs, MaxLayers)} }

DocumentFiles ==
  {[readable |-> TRUE, json |-> d] : d \in Documents}
    \cup {[readable |-> FALSE, json |-> Null]}

(***************************************************************************)
(* get_all_frames as a state machine                                       *)
(*   pc: start -> loaded -> assets_loaded -> parsed -> render -> done      *)
(*       with err after a failed load and panicked after a worker's panic  *)
(*   work[f]: the worker of frame f: st (todo, run, done, panic), pos (the  *)
(*       step of the layer loop), image (its canvas), comp (the layers it   *)
(*       has composited, in order), rank (its place in completion order)    *)
(***************************************************************************)
Init ==
  /\ pc = "start"
  /\ doc \in DocumentFiles
  /\ assets = <<>>
  /\ layers = <<>>
  /\ dims = <<>>
  /\ work = <<>>
  /\ frames = <<>>
  /\ inp = Null
  /\ out = NoOut

Fail(r) ==
  /\ pc' = "err"
  /\ out' = [fn |-> "get_all_frames", ok |-> FALSE, err |-> r.err]

LoadJson ==
  /\ pc = "start"
  /\ LET r == load_bodymovin_json(doc)
     IN  IF r.ok THEN pc' = "loaded" /\ UNCHANGED out ELSE Fail(r)
  /\ UNCHANGED <<doc, assets, layers, dims, work, frames, inp>>

LoadAssets ==
  /\ pc = "loaded"
  /\ LET r == load_assets(doc.json)
     IN  IF r.ok THEN pc' = "assets_loaded" /\ assets' = r.v /\ UNCHANGED out
         ELSE Fail(r) /\ UNCHANGED assets
  /\ UNCHANGED <<doc, layers, dims, work, frames, inp>>

ParseLayers ==
  /\ pc = "assets_loaded"
  /\ LET r == parse_layers(doc.json)
     IN  IF r.ok THEN pc' = "parsed" /\ layers' = r.v /\ UNCHANGED out
         ELSE Fail(r) /\ UNCHANGED layers
  /\ UNCHANGED <<doc, assets, dims, work, frames, inp>>

StartRender ==
  /\ pc = "parsed"
  /\ pc' = "render"
  /\ dims' = Dimensions(doc.json)
  /\ work' = [f \in FrameRange(dims'.total_frames) |->
                [st |-> "todo", pos |-> 1, comp |-> <<>>, rank |-> 0,
                 image |-> NewImage(dims'.width, dims'.height)]]
  /\ UNCHANGED <<doc, assets, layers, frames, inp, out>>

\* render_frame begins: a fresh canvas
WorkerStart(f) ==
  /\ pc = "render"
  /\ work[f].st = "todo"
  /\ work' = [work EXCEPT ![f].st = "run",
                          ![f].image = NewImage(dims.width, dims.height)]
  /\ UNCHANGED <<pc, doc, assets, layers, dims, frames, inp, out>>

\* One turn of the layer loop of render_frame
WorkerStep(f) ==
  /\ pc = "render"
  /\ work[f].st = "run"
  /\ work[f].pos <= Len(layers)
  /\ LET l == LayerOrder(Len(layers))[work[f].pos]
         layer == layers[l]
     IN  IF LayerActive(layer, f) /\ AssetResolves(layer, assets)
           THEN IF parse_transform_panics(layer.transform)
                  THEN work' = [work EXCEPT ![f].st = "panic"]
                  ELSE work' = [work EXCEPT
                         ![f].pos = @ + 1,
                         ![f].comp = Append(@, l),
                         ![f].image = composite_layer(@, assets[layer.asset_id.v],
                                        parse_transform(layer.transform, R(f)))]
           ELSE work' = [work EXCEPT ![f].pos = @ + 1]
  /\ UNCHANGED <<pc, doc, assets, layers, dims, frames, inp, out>>

\* render_frame returns Ok(image); the frame is collected
WorkerFinish(f) ==
  /\ pc = "render"
  /\ work[f].st = "run"
  /\ work[f].pos > Len(layers)
  /\ work' = [work EXCEPT ![f].st = "done", ![f].rank = Len(frames) + 1]
  /\ frames' = Collected(frames, f, work[f].image)
  /\ UNCHANGED <<pc, doc, assets, layers, dims, inp, out>>

\* Every frame is collected: get_all_frames returns Ok(frames)
ReturnFrames ==
  /\ pc = "render"
  /\ \A f \in DOMAIN work : work[f].st = "done"
  /\ pc' = "done"
  /\ out' = [fn |-> "get_all_frames", ok |-> TRUE, v |-> frames]
  /\ UNCHANGED <<doc, assets, layers, dims, work, frames, inp>>

\* A worker panicked and no frame is in flight: the panic resumes in the
\* caller and nothing is returned.
PropagatePanic ==
  /\ pc = "render"
  /\ \E f \in DOMAIN work : work[f].st = "panic"
  /\ \A f \in DOMAIN work : work[f].st # "run"
  /\ pc' = "panicked"
  /\ UNCHANGED <<doc, assets, layers, dims, work, frames, inp, out>>

Next ==
  \/ LoadJson
  \/ LoadAssets
  \/ ParseLayers
  \/ StartRender
  \/ \E f \in DOMAIN work : WorkerStart(f)
  \/ \E f \in DOMAIN work : WorkerStep(f)
  \/ \E f \in DOMAIN work : WorkerFinish(f)
  \/ ReturnFrames
  \/ PropagatePanic

Spec == Init /\ [][Next]_vars

(***************************************************************************)
(* Claims about get_all_frames (checked under Spec)                        *)
(***************************************************************************)
Range(f) == {f[i] : i \in DOMAIN f}

\* The frame count a document declares: its "op", 0 when absent or unusable.
DeclaredFrames(json) ==
  IF is_number(Key(json, "op")) /\ Key(json, "op").v >= 0 THEN Key(json, "op").v ELSE 0

\* A layer breaks the rule that an animated track has keyframes.
EmptyTrack(layer) ==
  \E key \in {"p", "s", "a", "r", "o"} :
    LET prop == Key(layer.transform, key)
    IN  is_number(Key(prop, "a")) /\ Key(prop, "a").v = 1 /\ Key(prop, "k") = Arr(<<>>)

\* The run has a step to take: rendering is about to start, a worker has its
\* frame to begin, a layer to visit or its canvas to hand over, or every
\* frame is collected and the sequence is about to be returned.
StepPending ==
  \/ pc = "parsed"
  \/ /\ pc = "render"
     /\ \/ \E f \in DOMAIN work : work[f].st \in {"todo", "run"}
        \/ \A f \in DOMAIN work : work[f].st = "done"

\* C1: the sequence get_all_frames returns has as many canvases as the
\* document declares frames ("op", 0 when absent): one canvas for each frame
\* index in [0, total_frames).  A loaded document whose animated tracks all
\* have keyframes is rendered to the end: no worker panics and the run does
\* not stop short of returning.
C1_FrameCount ==
  /\ pc = "done" =>
       /\ out.ok
       /\ Len(out.v) = DeclaredFrames(doc.json)
       /\ \A k \in 0..(DeclaredFrames(doc.json) - 1) :
            Cardinality({i \in 1..Len(out.v) : out.v[i].frame = k}) = 1
  /\ (pc \in {"parsed", "render", "panicked"}
        /\ \A l \in 1..Len(layers) : ~EmptyTrack(layers[l])) =>
       /\ pc # "panicked"
       /\ \A f \in DOMAIN work : work[f].st # "panic"
       /\ StepPending

C1_Witness ==
  pc = "done" /\ Len(out.v) >= 2 /\ \E f \in DOMAIN work : work[f].comp # <<>>

\* C2: whatever the order in which the workers complete, the frames
\* collected so far are in ascending frame order, and the k-th element of
\* the returned sequence is the canvas rendered for frame k.
C2_FrameOrder ==
  /\ \A i, j \in 1..Len(frames) : i < j => frames[i].frame < frames[j].frame
  /\ pc = "done" =>
       \A k \in 1..Len(out.v) :
         out.v[k].frame = k - 1 /\ out.v[k].image = work[k - 1].image

\* A later frame completed before an earlier one, and the sequence was returned.
C2_Witness ==
  /\ pc = "done"
  /\ \E f, g \in DOMAIN work : f < g /\ work[f].rank > work[g].rank

\* The pixels compositing layer l covers on frame f.
Footprint(l, f) ==
  LET t == parse_transform(layers[l].transform, R(f))
      img == assets[layers[l].asset_id.v]
      top == Resized(img, ScaledSize(img, t))
      x == AsI64(fsub(t.position.x, t.anchor_point.x))
      y == AsI64(fsub(t.position.y, t.anchor_point.y))
  IN  {q \in Pixels(dims.width, dims.height) :
         x <= q[1] /\ q[1] < x + top.w /\ y <= q[2] /\ q[2] < y + top.h}

IMin(S) == CHOOSE m \in S : \A n \in S : m <= n

\* C6: within a frame the layers are composited one after the other in
\* reverse storage order (a layer stored later is composited before one
\* stored earlier), so a pixel several composited layers cover shows the one
\* stored first.
C6_ReverseStorageOrder ==
  \A f \in DOMAIN work :
    /\ \A i, j \in 1..Len(work[f].comp) : i < j => work[f].comp[i] > work[f].comp[j]
    /\ work[f].st = "done" =>
         LET covered == [l \in Range(work[f].comp) |-> Footprint(l, f)]
         IN  \A q \in UNION Range(covered) :
               LET cover == {l \in DOMAIN covered : q \in covered[l]}
               IN  work[f].image.px[q].c = assets[layers[IMin(cover)].asset_id.v].c

\* Two composited layers of different colour overlap on a finished frame.
C6_Witness ==
  \E f \in DOMAIN work :
    /\ work[f].st = "done"
    /\ \E a, b \in Range(work[f].comp) :
         /\ a < b
         /\ assets[layers[a].asset_id.v].c # assets[layers[b].asset_id.v].c
         /\ Footprint(a, f) \cap Footprint(b, f) # {}

\* The layers to composite on frame f: start_frame <= f <= end_frame, with an
\* asset reference that is present and in the store.
Compositable(f) ==
  {l \in 1..Len(layers) :
     /\ fle(layers[l].start_frame, R(f))
     /\ fle(R(f), layers[l].end_frame)
     /\ is_str(layers[l].asset_id)
     /\ layers[l].asset_id.v \in DOMAIN assets}

\* The canvas after compositing the layers ls[i..] in turn onto image.
RECURSIVE ComposeAll(_, _, _, _)
ComposeAll(image, ls, i, f) ==
  IF i > Len(ls) THEN image
  ELSE ComposeAll(composite_layer(image, assets[layers[ls[i]].asset_id.v],
                                  parse_transform(layers[ls[i]].transform, R(f))),
                  ls, i + 1, f)

\* C7: on frame i render_frame composites exactly the layers with
\* start_frame <= i <= end_frame whose asset is present and resolves; the
\* other layers leave the canvas as it was and raise no error.
C7_ExactlyTheActiveLayers ==
  \A f \in DOMAIN work :
    /\ Range(work[f].comp) \subseteq Compositable(f)
    /\ work[f].st = "done" =>
         /\ Range(work[f].comp) = Compositable(f)
         /\ work[f].image =
              ComposeAll(NewImage(dims.width, dims.height), work[f].comp, 1, f)
    /\ work[f].st = "panic" =>
         LET n == Len(layers) IN (n + 1 - work[f].pos) \in Compositable(f)

\* A finished frame with a layer composited on its last active frame and a
\* layer passed over.
C7_Witness ==
  \E f \in DOMAIN work :
    /\ work[f].st = "done"
    /\ \E l \in Range(work[f].comp) : layers[l].end_frame = R(f)
    /\ \E l \in 1..Len(layers) : l \notin Range(work[f].comp)

DefectiveAsset(a) ==
  \/ ~is_str(Key(a, "id"))
  \/ ~is_str(Key(a, "p"))
  \/ Key(a, "p").v \notin DOMAIN Files

DefectiveAssets(json) ==
  /\ is_array(Key(json, "assets"))
  /\ \E i \in 1..Len(Key(json, "assets").v) : DefectiveAsset(Key(json, "assets").v[i])

Defective(file) ==
  \/ ~file.readable
  \/ ~is_array(Key(file.json, "layers"))
  \/ DefectiveAssets(file.json)

\* C8: with an unreadable document, a missing layer list, or an asset entry
\* without id, without path or with a file that does not open or decode,
\* get_all_frames fails before any frame is computed (an asset defect already
\* in load_assets), and what it returns is an error or all the frames, never
\* a part of them.
C8_FailsBeforeRendering ==
  /\ Defective(doc) =>
       /\ pc \in {"start", "loaded", "assets_loaded", "err"}
       /\ pc = "loaded" => doc.readable
       /\ pc = "assets_loaded" => ~DefectiveAssets(doc.json)
       /\ work = <<>>
       /\ frames = <<>>
       /\ pc = "err" => ~out.ok
  /\ (out.fn = "get_all_frames" /\ out.ok) =>
       Len(out.v) = Cardinality(DOMAIN work) /\ \A f \in DOMAIN work : work[f].st = "done"

\* A readable document with layers and frames to render, stopped by a bad asset.
C8_Witness ==
  /\ pc = "err"
  /\ doc.readable
  /\ is_array(Key(doc.json, "layers"))
  /\ Key(doc.json, "layers").v # <<>>
  /\ DeclaredFrames(doc.json) >= 1
  /\ DefectiveAssets(doc.json)

====
